---- MODULE Spec2Model ----
(***************************************************************************)
(* A model of create_sample_file.py: the construction of the coordinate    *)
(* grid and its bounds, the four synthetic field generators, the void      *)
(* mask, the record status and the assembly of the dataset tree that is    *)
(* handed to the writer.                                                    *)
(*                                                                         *)
(* Units.  Degrees are integers in thousandths of a degree (md), days are  *)
(* integers, cloud fraction is in hundredths of a percent.  A float64      *)
(* value is a record [nan, v]; uint8 values are plain integers.  Arrays    *)
(* are functions on 0..n-1 so that positions are the source's positions.   *)
(* Sine and cosine are computed in fixed point (Bhaskara's rational        *)
(* approximation), the spline rotation of the heart is computed by         *)
(* nearest-neighbour sampling.                                             *)
(***************************************************************************)
EXTENDS Integers, Sequences, FiniteSets, TLC

VARIABLES
    inp,          \* the arguments of DataTreeMaker(...)
    pc,           \* position of the __main__ script
    err,          \* the exception that ended the run, or "none"
    time, lon, lat,                       \* self.time, self.lon, self.lat
    time_bounds, lon_bounds, lat_bounds,  \* self.*_bounds
    rec_status,   \* get_root()["record_status"]
    unmasked,     \* a group's fields as generated, before mask_timestamps
    clouds,       \* the dataset Clouds.get_dataset is building / returned
    radiation,    \* the dataset Radiation.get_dataset is building / returned
    fp_invalid,   \* a float 0/0 was evaluated (numpy's "invalid value")
    tree,         \* what get_data_tree returned
    written,      \* what DatasetWriter.write received
    b_in,         \* arguments of a direct call of _get_bounds
    b_pc,         \* position of that call
    b_out         \* its result

vars == <<inp, pc, err, time, lon, lat, time_bounds, lon_bounds, lat_bounds,
          rec_status, unmasked, clouds, radiation, fp_invalid, tree, written,
          b_in, b_pc, b_out>>

mainVars == <<inp, pc, err, time, lon, lat, time_bounds, lon_bounds,
              lat_bounds, rec_status, unmasked, clouds, radiation, fp_invalid,
              tree, written>>

boundsVars == <<b_in, b_pc, b_out>>

-----------------------------------------------------------------------------
(* Bounds of the model.                                                    *)

MaxDays == 3

MaxVoid == 2

MaxCoords == 3

-----------------------------------------------------------------------------
(* Arrays and numbers.                                                     *)

Size(a) == Cardinality(DOMAIN a)

Range(a) == {a[i] : i \in DOMAIN a}

Abs(x) == IF x < 0 THEN -x ELSE x

Max(S) == CHOOSE x \in S : \A y \in S : y <= x

Min(S) == CHOOSE x \in S : \A y \in S : x <= y

\* ceil(a / b) for b > 0
CeilDiv(a, b) == -((-a) \div b)

\* a / b rounded to the nearest integer, ties to the even one (np.round)
RoundHalfEven(a, b) ==
    LET q == a \div b
        r == a % b
    IN  IF 2 * r < b THEN q
        ELSE IF 2 * r > b THEN q + 1
        ELSE IF q % 2 = 0 THEN q ELSE q + 1

NaN == [nan |-> TRUE, v |-> 0]

Float(x) == [nan |-> FALSE, v |-> x]

-----------------------------------------------------------------------------
(* DataTreeMaker: the coordinate axes.                                     *)

\* rrule(dtstart, until, freq=DAILY): one value per day, both ends included
GetTime(tstart, tend) ==
    [i \in 0 .. (tend - tstart) |-> tstart + i]

\* np.arange(start, stop, step), step > 0
Arange(start, stop, step) ==
    LET len == IF stop > start THEN CeilDiv(stop - start, step) ELSE 0
    IN  [i \in 0 .. (len - 1) |-> start + i * step]

\* np.round(x, decimals=1) of a value in md
Round1(x) == 100 * RoundHalfEven(x, 100)

\* get_lon / get_lat
GetAxis(amin, amax, d) ==
    LET a == Arange(amin, amax + d, d)
    IN  [i \in DOMAIN a |-> Round1(a[i])]

GetBounds_LeftForCenter(coords, resol, align) ==
    IF align \in {"left", "center"}
    THEN [raised |-> "none",
          bounds |-> [i \in DOMAIN coords |-> <<coords[i], coords[i] + resol>>]]
    ELSE [raised |-> "NotImplementedError", bounds |-> <<>>]

GetBounds_Fallback(coords, resol, align) ==
    IF align = "left"
    THEN [raised |-> "none",
          bounds |-> [i \in DOMAIN coords |-> <<coords[i], coords[i] + resol>>]]
    ELSE [raised |-> "none",
          bounds |-> [i \in DOMAIN coords |->
                        <<coords[i] - resol \div 2, coords[i] + resol \div 2>>]]

\* _get_bounds; resol is even, so 0.5 * resol is resol \div 2
GetBounds(coords, resol, align) ==
    IF align = "left"
    THEN [raised |-> "none",
          bounds |-> [i \in DOMAIN coords |-> <<coords[i], coords[i] + resol>>]]
    ELSE IF align = "center"
    THEN [raised |-> "none",
          bounds |-> [i \in DOMAIN coords |->
                        <<coords[i] - resol \div 2, coords[i] + resol \div 2>>]]
    ELSE [raised |-> "NotImplementedError", bounds |-> <<>>]

\* np.timedelta64(1, "D") in days
DayResol == 1

-----------------------------------------------------------------------------
(* RecordStatus and Mask.                                                  *)

\* i in self.tvoid
InList(i, tvoid) == \E k \in DOMAIN tvoid : tvoid[k] = i

GetRecordStatus_OneBased(n, tvoid) ==
    [i \in 0 .. (n - 1) |-> IF InList(i + 1, tvoid) THEN 1 ELSE 0]

\* RecordStatus.get_record_status for a time axis of n positions
GetRecordStatus(n, tvoid) ==
    [i \in 0 .. (n - 1) |-> IF InList(i, tvoid) THEN 1 ELSE 0]

\* ds["time"]: the datasets of the groups carry no time coordinate, so the
\* lookup yields the positions 0..n-1 of the dimension
DsTime(n) == [i \in 0 .. (n - 1) |-> i]

\* an index of a fancy lookup is in range when -n <= v < n
IndexOk(n, v) == -n <= v /\ v < n

\* time[self.void_timestamps]: negative positions count from the end
TimeToMask(n, void_timestamps) ==
    {DsTime(n)[IF void_timestamps[k] < 0 THEN n + void_timestamps[k]
               ELSE void_timestamps[k]] : k \in DOMAIN void_timestamps}

\* time.isin(time_to_mask)
ShouldBeMasked(n, void_timestamps) ==
    [t \in 0 .. (n - 1) |-> DsTime(n)[t] \in TimeToMask(n, void_timestamps)]

Where_Inverted(field, should_be_masked, fill_value) ==
    [t \in DOMAIN field |->
        IF should_be_masked[t]
        THEN field[t]
        ELSE [i \in DOMAIN field[t] |->
                [j \in DOMAIN field[t][i] |-> fill_value]]]

\* ds[var].where(~should_be_masked, fill_value)
Where(field, should_be_masked, fill_value) ==
    [t \in DOMAIN field |->
        IF should_be_masked[t]
        THEN [i \in DOMAIN field[t] |->
                [j \in DOMAIN field[t][i] |-> fill_value]]
        ELSE field[t]]

MaskTimestamps_Skipped(ds, n, void_timestamps, vars_to_mask) ==
    IF \E k \in DOMAIN void_timestamps : ~IndexOk(n, void_timestamps[k])
    THEN [raised |-> "IndexError", ds |-> ds]
    ELSE [raised |-> "none", ds |-> ds]

\* Mask.mask_timestamps(ds, vars_to_mask): the dataset with every variable of
\* vars_to_mask rewritten, or the IndexError of the lookup
MaskTimestamps(ds, n, void_timestamps, vars_to_mask) ==
    IF \E k \in DOMAIN void_timestamps : ~IndexOk(n, void_timestamps[k])
    THEN [raised |-> "IndexError", ds |-> ds]
    ELSE [raised |-> "none",
          ds |-> [name \in DOMAIN ds |->
                    IF name \in DOMAIN vars_to_mask
                    THEN Where(ds[name], ShouldBeMasked(n, void_timestamps),
                               vars_to_mask[name])
                    ELSE ds[name]]]

-----------------------------------------------------------------------------
(* Fixed-point trigonometry.  Angles are in tenths of a degree, results in *)
(* thousandths.                                                            *)

\* sin of x tenths of a degree, 0 <= x <= 1800:
\* 4x(180-x) / (40500 - x(180-x)) for x in degrees
SinHalfTurn(x) ==
    LET p == x * (1800 - x)
        d == 4050000 - p
        n == 400 * p
    IN  10 * (n \div d) + (10 * (n % d)) \div d

SinMilli(a) ==
    LET r == a % 3600
    IN  IF r <= 1800 THEN SinHalfTurn(r) ELSE -SinHalfTurn(r - 1800)

CosMilli(a) == SinMilli(a + 900)

\* x ** 2 of a value in thousandths, in thousandths
SquareMilli(x) == (x * x) \div 1000

\* floor(sqrt(v)), 0 <= v < 128 * 128
Isqrt(v) == CHOOSE k \in 0 .. 128 : k * k <= v /\ v < (k + 1) * (k + 1)

-----------------------------------------------------------------------------
(* Clouds.                                                                 *)

\* 100 * lon_term * lat_term at time position t, in units of 1e-4 percent
CfcRaw(t, lon_md, lat_md) ==
    LET lon_term == SquareMilli(SinMilli((t * lon_md) \div 500))
        lat_term == SquareMilli(CosMilli((t * lat_md) \div 1000))
    IN  lon_term * lat_term

\* cfc.where((cfc < 10) | (cfc > 20)).round(decimals=2), hundredths of percent
CfcCell(t, lon_md, lat_md) ==
    LET raw == CfcRaw(t, lon_md, lat_md)
    IN  IF raw < 100000 \/ raw > 200000
        THEN Float(RoundHalfEven(raw, 100))
        ELSE NaN

\* Clouds._get_cfc
GetCfc(n, lat_axis, lon_axis) ==
    [t \in 0 .. (n - 1) |->
        [i \in DOMAIN lat_axis |->
            [j \in DOMAIN lon_axis |-> CfcCell(t, lon_axis[j], lat_axis[i])]]]

\* (lon_max - lon_min) / 2.0 * t / float(tmax): numpy's float division, which
\* yields NaN for 0/0 instead of raising
SpanTerm(lon_axis, t, tmax) ==
    IF tmax = 0
    THEN NaN
    ELSE Float(((Max(Range(lon_axis)) - Min(Range(lon_axis))) * t)
               \div (2 * tmax))

\* 96 * sin(t / 5 * deg2rad(mlon + span) * deg2rad(mlat)) ** 2 stored into the
\* uint8 array (truncation); pi is 355/113
NobsCell(t, lon_md, lat_md, span_md) ==
    LET arg == ((((t * (lon_md + span_md) * (lat_md \div 100)) \div 900) * 355)
                \div 113) \div 1000
    IN  (96 * SquareMilli(SinMilli(arg))) \div 1000

\* what a build may store for float NaN converted to uint8 (undefined in C)
NaNCastOutcomes == {0, 255}

\* Clouds._get_nobs: the arrays it may return, or the ValueError of max([])
GetNobs(n, lat_axis, lon_axis) ==
    IF n = 0
    THEN [raised |-> "ValueError", invalid |-> FALSE, arrays |-> {}]
    ELSE LET tmax == n - 1
             span == [t \in 0 .. (n - 1) |-> SpanTerm(lon_axis, t, tmax)]
         IN  [raised |-> "none",
              invalid |-> \E t \in 0 .. (n - 1) : span[t].nan,
              arrays |->
                {[t \in 0 .. (n - 1) |->
                    [i \in DOMAIN lat_axis |->
                        [j \in DOMAIN lon_axis |->
                            IF span[t].nan
                            THEN c
                            ELSE NobsCell(t, lon_axis[j], lat_axis[i],
                                          span[t].v)]]]
                 : c \in IF \E t \in 0 .. (n - 1) : span[t].nan
                         THEN NaNCastOutcomes ELSE {0}}]

QualityCode_Inclusive(lat_md) ==
    IF Abs(lat_md) >= 65000 THEN 2
    ELSE IF Abs(lat_md) >= 30000 THEN 1
    ELSE 0

\* the code _get_quality leaves at a latitude: the three assignments in order
\* over the zero-initialised array
QualityCode(lat_md) ==
    IF Abs(lat_md) > 65000 THEN 2
    ELSE IF Abs(lat_md) > 30000 /\ Abs(lat_md) < 65000 THEN 1
    ELSE 0

\* Clouds._get_quality
GetQuality(n, lat_axis, lon_axis) ==
    [t \in 0 .. (n - 1) |->
        [i \in DOMAIN lat_axis |->
            [j \in DOMAIN lon_axis |-> QualityCode(lat_axis[i])]]]

-----------------------------------------------------------------------------
(* Radiation.                                                              *)

\* np.ogrid[a : b : complex(0, num)][k] scaled by heart_extent = 1.2, in
\* hundredths
OgridScaled(a, b, num, k) ==
    IF num = 1 THEN 120 * a ELSE 120 * a + (120 * (b - a) * k) \div (num - 1)

\* (x**2 + (5 * y / 4 - sqrt(|x|))**2 - 1) <= 0 at row i, column j
Heart(rows, cols, i, j) ==
    LET y == OgridScaled(1, -1, rows, i)
        x == OgridScaled(-1, 1, cols, j)
        w == (5 * y) \div 4 - Isqrt(100 * Abs(x))
    IN  x * x + w * w - 10000 <= 0

\* rotate(heart, angle, reshape=False)[i][j]: the cell of the input that the
\* rotation about the array centre maps to (i, j), FALSE outside the array;
\* angle in tenths of a degree
Rotate(rows, cols, angle, i, j) ==
    LET c == CosMilli(angle)
        s == SinMilli(angle)
        di == 2 * i - (rows - 1)
        dj == 2 * j - (cols - 1)
        si == RoundHalfEven(c * di + s * dj + 1000 * (rows - 1), 2000)
        sj == RoundHalfEven(c * dj - s * di + 1000 * (cols - 1), 2000)
    IN  IF si \in 0 .. (rows - 1) /\ sj \in 0 .. (cols - 1)
        THEN Heart(rows, cols, si, sj)
        ELSE FALSE

GetSdu_Transposed(n, lat_axis, lon_axis) ==
    [t \in 0 .. (n - 1) |->
        [j \in DOMAIN lon_axis |->
            [i \in DOMAIN lat_axis |-> Float(0)]]]

\* Radiation.get_sdu
GetSdu(n, lat_axis, lon_axis) ==
    LET rows == Size(lat_axis)
        cols == Size(lon_axis)
    IN  [t \in 0 .. (n - 1) |->
            [i \in DOMAIN lat_axis |->
                [j \in DOMAIN lon_axis |->
                    IF Rotate(rows, cols, (3600 * t) \div n, i, j)
                    THEN Float(1)
                    ELSE Float(0)]]]

-----------------------------------------------------------------------------
(* The inputs.                                                             *)

\* grid_resol
Resols == {250, 500, 1000}

\* lon_min and lon_max: a range that is not a whole number of steps, whose
\* last value overshoots lon_max, and one that is
LonRanges(r) ==
    {[min |-> -500, max |-> -500 + r + r \div 2],
     [min |-> 100000, max |-> 100000 + r]}

\* lat_min and lat_max: around the band limits 30 and 65, and a single row
LatRanges(r) ==
    {[min |-> -66000, max |-> -66000 + 2 * r],
     [min |-> 29000, max |-> 29000 + 2 * r],
     [min |-> 64000, max |-> 64000 + 2 * r],
     [min |-> 30000, max |-> 30000]}

\* void_timestamps: lists of positions, also negative and beyond the axis
VoidLists ==
    UNION {[1 .. k -> (-2) .. MaxDays] : k \in 0 .. MaxVoid}

\* the arguments of DataTreeMaker(...)
MakeInput(e, r, x, y, v) ==
    [tstart |-> 0, tend |-> e,
     lon_min |-> x.min, lon_max |-> x.max,
     lat_min |-> y.min, lat_max |-> y.max,
     grid_resol |-> r, void_timestamps |-> v]

NoInput ==
    [tstart |-> 0, tend |-> 0, lon_min |-> 0, lon_max |-> 0, lat_min |-> 0,
     lat_max |-> 0, grid_resol |-> 0, void_timestamps |-> <<>>]

Aligns == {"left", "center", "right", "Center"}

CoordVals == {-250, 0, 200, 250, 500}

CoordLists == UNION {[0 .. (k - 1) -> CoordVals] : k \in 0 .. MaxCoords}

-----------------------------------------------------------------------------
(* The run of __main__.                                                    *)

NoGroups == [clouds |-> <<>>, radiation |-> <<>>]

Init ==
    /\ \E e \in (-1) .. (MaxDays - 1), r \in Resols, v \in VoidLists :
        \E x \in LonRanges(r), y \in LatRanges(r) :
            inp = MakeInput(e, r, x, y, v)
    /\ pc = "start"
    /\ err = "none"
    /\ time = <<>> /\ lon = <<>> /\ lat = <<>>
    /\ time_bounds = <<>> /\ lon_bounds = <<>> /\ lat_bounds = <<>>
    /\ rec_status = <<>>
    /\ unmasked = NoGroups
    /\ clouds = <<>>
    /\ radiation = <<>>
    /\ fp_invalid = FALSE
    /\ tree = <<>>
    /\ written = <<>>
    /\ b_in = [coords |-> <<>>, resol |-> 0, align |-> "left"]
    /\ b_pc = "off"
    /\ b_out = <<>>

\* the number of dimensions of np.array(bounds): an empty list makes a
\* one-dimensional array
BoundsNdim(bounds) == IF Size(bounds) = 0 THEN 1 ELSE 2

\* DataTreeMaker.__init__: the axes, then the bounds; xr.DataArray raises
\* ValueError when the array's dimensions are not the two it is given
Construct ==
    /\ pc = "start"
    /\ LET t == GetTime(inp.tstart, inp.tend)
           x == GetAxis(inp.lon_min, inp.lon_max, inp.grid_resol)
           y == GetAxis(inp.lat_min, inp.lat_max, inp.grid_resol)
           tb == GetBounds(t, DayResol, "left")
           xb == GetBounds(x, inp.grid_resol, "center")
           yb == GetBounds(y, inp.grid_resol, "center")
           bad == \/ tb.raised # "none" \/ xb.raised # "none"
                  \/ yb.raised # "none"
                  \/ BoundsNdim(tb.bounds) # 2 \/ BoundsNdim(xb.bounds) # 2
                  \/ BoundsNdim(yb.bounds) # 2
       IN  /\ time' = t /\ lon' = x /\ lat' = y
           /\ IF bad
              THEN /\ pc' = "error"
                   /\ err' = IF tb.raised # "none" THEN tb.raised
                             ELSE IF xb.raised # "none" THEN xb.raised
                             ELSE IF yb.raised # "none" THEN yb.raised
                             ELSE "ValueError"
                   /\ UNCHANGED <<time_bounds, lon_bounds, lat_bounds>>
              ELSE /\ pc' = "constructed"
                   /\ err' = "none"
                   /\ time_bounds' = tb.bounds
                   /\ lon_bounds' = xb.bounds
                   /\ lat_bounds' = yb.bounds
    /\ UNCHANGED <<inp, rec_status, unmasked, clouds, radiation, fp_invalid,
                   tree, written, boundsVars>>

\* get_data_tree, first entry of the dict: get_root()
GetRoot ==
    /\ pc = "constructed"
    /\ rec_status' = GetRecordStatus(Size(time), inp.void_timestamps)
    /\ pc' = "root"
    /\ UNCHANGED <<inp, err, time, lon, lat, time_bounds, lon_bounds,
                   lat_bounds, unmasked, clouds, radiation, fp_invalid, tree,
                   written, boundsVars>>

\* Clouds.get_dataset up to the xr.Dataset(...) of the three fields
CloudsGenerate ==
    /\ pc = "root"
    /\ LET n == Size(time)
           nobs == GetNobs(n, lat, lon)
       IN  IF nobs.raised # "none"
           THEN /\ pc' = "error"
                /\ err' = nobs.raised
                /\ UNCHANGED <<unmasked, clouds, fp_invalid>>
           ELSE \E a \in nobs.arrays :
                /\ clouds' = [cfc_dm |-> GetCfc(n, lat, lon),
                              nobs |-> a,
                              quality |-> GetQuality(n, lat, lon)]
                /\ unmasked' = [unmasked EXCEPT !.clouds = clouds']
                /\ fp_invalid' = nobs.invalid
                /\ pc' = "clouds_built"
                /\ err' = "none"
    /\ UNCHANGED <<inp, time, lon, lat, time_bounds, lon_bounds, lat_bounds,
                   rec_status, radiation, tree, written, boundsVars>>

\* Clouds.get_dataset: self.mask.mask_timestamps(ds, {cfc_dm: nan, nobs: 0})
CloudsMask ==
    /\ pc = "clouds_built"
    /\ LET m == MaskTimestamps(clouds, Size(time), inp.void_timestamps,
                               [cfc_dm |-> NaN, nobs |-> 0])
       IN  /\ clouds' = m.ds
           /\ err' = m.raised
           /\ pc' = IF m.raised = "none" THEN "clouds_done" ELSE "error"
    /\ UNCHANGED <<inp, time, lon, lat, time_bounds, lon_bounds, lat_bounds,
                   rec_status, unmasked, radiation, fp_invalid, tree, written,
                   boundsVars>>

\* Radiation.get_dataset up to the xr.Dataset(...) of sdu
RadiationGenerate ==
    /\ pc = "clouds_done"
    /\ radiation' = [sdu |-> GetSdu(Size(time), lat, lon)]
    /\ unmasked' = [unmasked EXCEPT !.radiation = radiation']
    /\ pc' = "radiation_built"
    /\ UNCHANGED <<inp, err, time, lon, lat, time_bounds, lon_bounds,
                   lat_bounds, rec_status, clouds, fp_invalid, tree, written,
                   boundsVars>>

\* Radiation.get_dataset: self.mask.mask_timestamps(ds, {sdu: nan})
RadiationMask ==
    /\ pc = "radiation_built"
    /\ LET m == MaskTimestamps(radiation, Size(time), inp.void_timestamps,
                               [sdu |-> NaN])
       IN  /\ radiation' = m.ds
           /\ err' = m.raised
           /\ pc' = IF m.raised = "none" THEN "radiation_done" ELSE "error"
    /\ UNCHANGED <<inp, time, lon, lat, time_bounds, lon_bounds, lat_bounds,
                   rec_status, unmasked, clouds, fp_invalid, tree, written,
                   boundsVars>>

\* get_data_tree: xr.DataTree.from_dict(...) and return
ReturnTree ==
    /\ pc = "radiation_done"
    /\ tree' = [root |-> [time |-> time, lon |-> lon, lat |-> lat,
                          time_bounds |-> time_bounds,
                          lon_bounds |-> lon_bounds,
                          lat_bounds |-> lat_bounds,
                          record_status |-> rec_status],
                clouds |-> clouds,
                radiation |-> radiation]
    /\ pc' = "returned"
    /\ UNCHANGED <<inp, err, time, lon, lat, time_bounds, lon_bounds,
                   lat_bounds, rec_status, unmasked, clouds, radiation,
                   fp_invalid, written, boundsVars>>

\* DatasetWriter.write(tree, "test.nc")
Write ==
    /\ pc = "returned"
    /\ written' = tree
    /\ pc' = "written"
    /\ UNCHANGED <<inp, err, time, lon, lat, time_bounds, lon_bounds,
                   lat_bounds, rec_status, unmasked, clouds, radiation,
                   fp_invalid, tree, boundsVars>>

Next ==
    \/ Construct
    \/ GetRoot
    \/ CloudsGenerate
    \/ CloudsMask
    \/ RadiationGenerate
    \/ RadiationMask
    \/ ReturnTree
    \/ Write

Spec == Init /\ [][Next]_vars

-----------------------------------------------------------------------------
(* A direct call of DataTreeMaker._get_bounds.                             *)

BoundsInit ==
    /\ inp = NoInput
    /\ pc = "off"
    /\ err = "none"
    /\ time = <<>> /\ lon = <<>> /\ lat = <<>>
    /\ time_bounds = <<>> /\ lon_bounds = <<>> /\ lat_bounds = <<>>
    /\ rec_status = <<>>
    /\ unmasked = NoGroups
    /\ clouds = <<>>
    /\ radiation = <<>>
    /\ fp_invalid = FALSE
    /\ tree = <<>>
    /\ written = <<>>
    /\ \E c \in CoordLists, r \in Resols, a \in Aligns :
        b_in = [coords |-> c, resol |-> r, align |-> a]
    /\ b_pc = "call"
    /\ b_out = <<>>

CallGetBounds ==
    /\ b_pc = "call"
    /\ LET r == GetBounds(b_in.coords, b_in.resol, b_in.align)
       IN  /\ b_out' = r.bounds
           /\ b_pc' = IF r.raised = "none" THEN "returned" ELSE r.raised
    /\ UNCHANGED <<b_in, mainVars>>

BoundsNext == CallGetBounds

BoundsSpec == BoundsInit /\ [][BoundsNext]_vars

-----------------------------------------------------------------------------
(* Vocabulary of the properties.                                           *)

NTime == Size(time)

VoidSet == Range(inp.void_timestamps)

\* the void list holds only positions of the time axis
VoidValid == \A v \in VoidSet : 0 <= v /\ v < NTime

\* position t is one the lookup time[void_timestamps] selects
Selected(t) == \E v \in VoidSet : v = t \/ v = t - NTime

AfterRoot ==
    pc \in {"root", "clouds_built", "clouds_done", "radiation_built",
            "radiation_done", "returned", "written"}

CloudsBuilt ==
    pc \in {"clouds_built", "clouds_done", "radiation_built",
            "radiation_done", "returned", "written"}

CloudsMasked ==
    pc \in {"clouds_done", "radiation_built", "radiation_done", "returned",
            "written"}

RadiationBuilt == pc \in {"radiation_built", "radiation_done", "returned", "written"}

RadiationMasked == pc \in {"radiation_done", "returned", "written"}

Cells == {<<i, j>> : i \in DOMAIN lat, j \in DOMAIN lon}

\* every cell of field at time position t holds value
AllAt(field, t, value) == \A c \in Cells : field[t][c[1]][c[2]] = value

\* every cell of field at time position t holds what other holds there
SameAt(field, other, t) ==
    \A c \in Cells : field[t][c[1]][c[2]] = other[t][c[1]][c[2]]

\* field has the shape (a, b, c)
HasShape(field, a, b, c) ==
    /\ DOMAIN field = 0 .. (a - 1)
    /\ \A t \in DOMAIN field :
        /\ DOMAIN field[t] = 0 .. (b - 1)
        /\ \A i \in DOMAIN field[t] : DOMAIN field[t][i] = 0 .. (c - 1)

-----------------------------------------------------------------------------
(* C1: after the void mask is applied to a group, each masked variable     *)
(* holds its fill value in every cell of every time position the lookup    *)
(* time[void_timestamps] selects (for a void list of valid positions:      *)
(* every position in the void set), and in every cell of every other       *)
(* position the value the generator produced.                              *)

C1_MaskFillsSelectedKeepsOthers ==
    /\ CloudsMasked =>
        \A t \in 0 .. (NTime - 1) :
            IF Selected(t)
            THEN /\ AllAt(clouds.cfc_dm, t, NaN)
                 /\ AllAt(clouds.nobs, t, 0)
            ELSE /\ SameAt(clouds.cfc_dm, unmasked.clouds.cfc_dm, t)
                 /\ SameAt(clouds.nobs, unmasked.clouds.nobs, t)
    /\ RadiationMasked =>
        \A t \in 0 .. (NTime - 1) :
            IF Selected(t)
            THEN AllAt(radiation.sdu, t, NaN)
            ELSE SameAt(radiation.sdu, unmasked.radiation.sdu, t)

\* a run in which a void position was filled and another position kept the
\* generator's values, some of which are the fill value
C1_Witness ==
    /\ pc = "written"
    /\ VoidValid
    /\ \E t \in 0 .. (NTime - 1) :
        /\ Selected(t)
        /\ \E c \in Cells : unmasked.clouds.nobs[t][c[1]][c[2]] # 0
        /\ \E c \in Cells : ~unmasked.clouds.cfc_dm[t][c[1]][c[2]].nan
    /\ \E t \in 0 .. (NTime - 1) :
        /\ ~Selected(t)
        /\ \E c \in Cells : clouds.nobs[t][c[1]][c[2]] # 0
    /\ \E t \in 0 .. (NTime - 1) : ~Selected(t) /\ AllAt(clouds.nobs, t, 0)

\* C1 as stated, for void lists of valid positions and runs whose counts are
\* all defined: the fill value occurs at exactly the void positions and the
\* other positions are unchanged
C1_FillExactlyAtVoid ==
    (CloudsMasked /\ VoidValid /\ ~fp_invalid) =>
        \A t \in 0 .. (NTime - 1) :
            /\ t \in VoidSet =>
                /\ AllAt(clouds.cfc_dm, t, NaN)
                /\ AllAt(clouds.nobs, t, 0)
            /\ t \notin VoidSet =>
                /\ SameAt(clouds.cfc_dm, unmasked.clouds.cfc_dm, t)
                /\ SameAt(clouds.nobs, unmasked.clouds.nobs, t)
                /\ \A c \in Cells :
                    /\ clouds.cfc_dm[t][c[1]][c[2]] # NaN
                    /\ clouds.nobs[t][c[1]][c[2]] # 0

-----------------------------------------------------------------------------
(* C2: get_record_status returns one code per time position, and the code  *)
(* at position i is 1 if i is a member of the void list and 0 otherwise.   *)

C2_RecordStatusIsMembership ==
    AfterRoot =>
        /\ DOMAIN rec_status = 0 .. (inp.tend - inp.tstart)
        /\ \A i \in DOMAIN rec_status :
            /\ rec_status[i] \in {0, 1}
            /\ rec_status[i] = 1 <=>
                \E k \in 1 .. Len(inp.void_timestamps) :
                    inp.void_timestamps[k] = i

\* a status array with a void and an ok position, from a list that also
\* holds a position off the axis
C2_Witness ==
    /\ pc = "root"
    /\ \E i \in DOMAIN rec_status : rec_status[i] = 1
    /\ \E i \in DOMAIN rec_status : rec_status[i] = 0
    /\ ~VoidValid

-----------------------------------------------------------------------------
(* C3: with an end date before the start date the run raises nothing and   *)
(* the tree it writes has no time positions.                               *)

C3_EmptyRangeCompletes ==
    inp.tend < inp.tstart =>
        /\ err = "none"
        /\ pc # "error"
        /\ pc = "written" =>
            /\ Size(written.root.time) = 0
            /\ Size(written.root.record_status) = 0
            /\ Size(written.clouds.cfc_dm) = 0
            /\ Size(written.clouds.nobs) = 0
            /\ Size(written.clouds.quality) = 0
            /\ Size(written.radiation.sdu) = 0

-----------------------------------------------------------------------------
(* C4: every field of every group, as generated, as masked and in the tree *)
(* that is returned, has the shape (|time|, |lat|, |lon|) of the root      *)
(* coordinates.                                                            *)

C4_FieldShapes ==
    /\ CloudsBuilt =>
        \A name \in {"cfc_dm", "nobs", "quality"} :
            /\ HasShape(clouds[name], Size(time), Size(lat), Size(lon))
            /\ HasShape(unmasked.clouds[name], Size(time), Size(lat), Size(lon))
    /\ RadiationBuilt =>
        /\ HasShape(radiation.sdu, Size(time), Size(lat), Size(lon))
        /\ HasShape(unmasked.radiation.sdu, Size(time), Size(lat), Size(lon))
    /\ pc \in {"returned", "written"} =>
        /\ \A name \in {"cfc_dm", "nobs", "quality"} :
            HasShape(tree.clouds[name], Size(tree.root.time),
                     Size(tree.root.lat), Size(tree.root.lon))
        /\ HasShape(tree.radiation.sdu, Size(tree.root.time),
                    Size(tree.root.lat), Size(tree.root.lon))

\* a returned tree whose three sizes differ and in which a position is masked
C4_Witness ==
    /\ pc = "returned"
    /\ Size(lat) # Size(lon)
    /\ Size(time) # Size(lat)
    /\ Size(time) # Size(lon)
    /\ Size(time) > 0
    /\ \E t \in 0 .. (NTime - 1) : Selected(t)

-----------------------------------------------------------------------------
(* C5: _get_bounds returns one pair per coordinate value, in coordinate    *)
(* order: [c, c + resol] under "left", [c - resol/2, c + resol/2] under    *)
(* "center"; and under "center", when consecutive values differ by exactly *)
(* resol, the upper bound of a cell is the lower bound of the next.        *)

BUniform ==
    \A i \in DOMAIN b_in.coords :
        (i + 1) \in DOMAIN b_in.coords =>
            b_in.coords[i + 1] - b_in.coords[i] = b_in.resol

C5_BoundsPairs ==
    b_pc = "returned" =>
        /\ DOMAIN b_out = DOMAIN b_in.coords
        /\ \A i \in DOMAIN b_out :
            /\ b_in.align = "left" =>
                b_out[i] = <<b_in.coords[i], b_in.coords[i] + b_in.resol>>
            /\ b_in.align = "center" =>
                /\ 2 * b_out[i][1] = 2 * b_in.coords[i] - b_in.resol
                /\ 2 * b_out[i][2] = 2 * b_in.coords[i] + b_in.resol
        /\ (b_in.align = "center" /\ BUniform) =>
            \A i \in DOMAIN b_out :
                (i + 1) \in DOMAIN b_out => b_out[i][2] = b_out[i + 1][1]

\* a center-aligned call on a uniform axis of three values
C5_Witness ==
    /\ b_pc = "returned"
    /\ b_in.align = "center"
    /\ Size(b_in.coords) = 3
    /\ BUniform

-----------------------------------------------------------------------------
(* C6: for an alignment other than "left" and "center", _get_bounds ends   *)
(* in NotImplementedError and returns no bounds.                           *)

C6_UnsupportedAlignRaises ==
    (b_pc # "call" /\ b_in.align \notin {"left", "center"}) =>
        /\ b_pc = "NotImplementedError"
        /\ b_out = <<>>

\* a call with an unsupported alignment on a non-empty axis has ended
C6_Witness ==
    /\ b_pc = "NotImplementedError"
    /\ b_in.align = "right"
    /\ Size(b_in.coords) > 0

-----------------------------------------------------------------------------
(* C7: the quality flag is a function of |lat|: 0 below 30, 1 between 30   *)
(* and 65, 2 above 65, 0 at exactly 30 and at exactly 65; the same at all  *)
(* time positions and longitudes, and the void mask leaves it as it is.    *)

LatBand(lat_md) ==
    CASE Abs(lat_md) < 30000 -> 0
      [] Abs(lat_md) > 30000 /\ Abs(lat_md) < 65000 -> 1
      [] Abs(lat_md) > 65000 -> 2
      [] Abs(lat_md) = 30000 \/ Abs(lat_md) = 65000 -> 0

C7_QualityByLatitudeBand ==
    /\ CloudsBuilt =>
        \A t \in 0 .. (NTime - 1) : \A c \in Cells :
            clouds.quality[t][c[1]][c[2]] = LatBand(lat[c[1]])
    /\ pc \in {"returned", "written"} =>
        \A t \in 0 .. (NTime - 1) : \A c \in Cells :
            tree.clouds.quality[t][c[1]][c[2]] = LatBand(tree.root.lat[c[1]])

\* a masked group with rows at exactly 65 degrees south, below and above it
C7_Witness ==
    /\ pc = "clouds_done"
    /\ \E i \in DOMAIN lat : lat[i] = -65000
    /\ \E i \in DOMAIN lat : Abs(lat[i]) > 65000
    /\ \E i \in DOMAIN lat : Abs(lat[i]) < 65000
    /\ \E t \in 0 .. (NTime - 1) : Selected(t)

-----------------------------------------------------------------------------
(* C8: with a single time position the span term of _get_nobs is 0: no     *)
(* division by zero is evaluated and every count is the defined one.       *)

C8_SingleStepSpanTermZero ==
    (CloudsBuilt /\ Size(time) = 1) =>
        /\ ~fp_invalid
        /\ \A c \in Cells :
            unmasked.clouds.nobs[0][c[1]][c[2]]
                = NobsCell(0, lon[c[2]], lat[c[1]], 0)

-----------------------------------------------------------------------------
(* C9: the tree the writer receives is the tree get_data_tree returned,    *)
(* with both groups masked; and once get_data_tree has returned, no field  *)
(* changes.                                                                *)

MaskedTree(tr) ==
    \A t \in 0 .. (NTime - 1) :
        Selected(t) =>
            /\ AllAt(tr.clouds.cfc_dm, t, NaN)
            /\ AllAt(tr.clouds.nobs, t, 0)
            /\ AllAt(tr.radiation.sdu, t, NaN)

C9_MaskedBeforeWrite ==
    /\ [](pc = "returned" => MaskedTree(tree))
    /\ [](pc = "written" => (written = tree /\ MaskedTree(written)))
    /\ [][(pc \in {"returned", "written"}) =>
            (tree' = tree /\ clouds' = clouds /\ radiation' = radiation)]_vars

\* the writer has received a tree with a masked position whose generated
\* values were not the fill values
C9_Witness ==
    /\ pc = "written"
    /\ \E t \in 0 .. (NTime - 1) :
        /\ Selected(t)
        /\ \E c \in Cells : unmasked.clouds.nobs[t][c[1]][c[2]] # 0
        /\ \E c \in Cells : unmasked.radiation.sdu[t][c[1]][c[2]] # NaN

-----------------------------------------------------------------------------
(* C10: whenever get_data_tree completes, a time position has record       *)
(* status 1 if and only if cfc_dm, nobs and sdu hold their fill values in  *)
(* every cell of that position.                                            *)

C10_StatusAgreesWithMask ==
    pc \in {"returned", "written"} =>
        \A t \in 0 .. (NTime - 1) :
            tree.root.record_status[t] = 1 <=>
                /\ AllAt(tree.clouds.cfc_dm, t, NaN)
                /\ AllAt(tree.clouds.nobs, t, 0)
                /\ AllAt(tree.radiation.sdu, t, NaN)

====
